---- MODULE Spec2Model ----
(***************************************************************************)
(* Defence Readiness Radar (src/app.py): a Streamlit script that is        *)
(* executed top to bottom once per user interaction (a "run").  The model  *)
(* has one action per kind of interaction; each action executes the whole  *)
(* script: session defaults, idle timeout, sidebar sign-in / sign-out,     *)
(* the login gate, the questionnaire scoring, the save handler and the     *)
(* history section.                                                        *)
(*                                                                         *)
(* Representation.                                                         *)
(*  - Text is a sequence of one-character strings, so that str.strip()     *)
(*    is computed and not assumed.                                         *)
(*  - A score is an integer number of hundredths (4.25 is 425).  The       *)
(*    program rounds every score to two decimals before it uses it, and    *)
(*    a double that is the nearest one to k/100 is determined by k.        *)
(*  - Time is an integer number of minutes since the first run.            *)
(***************************************************************************)
EXTENDS Integers, Sequences, FiniteSets, TLC

VARIABLES
    COMPANY_CODES,     \* app.py:87   dict company id -> access code (st.secrets)
    SUPABASE_ENABLED,  \* app.py:78   whether a Supabase client could be built
    session_state,     \* app.py:162  st.session_state: logged_in, company_id, last_activity
    now,               \* datetime.utcnow(), in minutes
    store,             \* rows of the Supabase table "assessments"
    saved_log,         \* history variable: the arguments of every successful save
    last_sign_in,      \* history variable: the form of the latest successful sign-in
    out,               \* what the latest run did and displayed
    questionnaire,     \* scoring specification: the responses, one sequence per dimension
    result,            \* scoring specification: the scores computed from questionnaire
    probe,             \* label specification: a score handed to interpret_score
    band               \* label specification: the label interpret_score returned

vars == << COMPANY_CODES, SUPABASE_ENABLED, session_state, now, store, saved_log,
           last_sign_in, out, questionnaire, result, probe, band >>

appVars == << COMPANY_CODES, SUPABASE_ENABLED, session_state, now, store, saved_log,
              last_sign_in, out >>

scoreVars == << questionnaire, result >>

labelVars == << probe, band >>

----------------------------------------------------------------------------
(* Bounds of the model *)

\* the clock stops at MaxClock minutes
MaxClock == 61

\* the table holds at most MaxRecords rows
MaxRecords == 2

\* a dimension of the scoring specification has at most MaxQuestions questions
MaxQuestions == 4

\* a questionnaire of the scoring specification has at most MaxDims dimensions
MaxDims == 2

----------------------------------------------------------------------------
(* Text *)

\* Python's None where a text may stand: a value that is no text of the model
None == << "<None>" >>

RECURSIVE lstrip(_)
lstrip(s) == IF s # << >> /\ Head(s) = " " THEN lstrip(Tail(s)) ELSE s

RECURSIVE rstrip(_)
rstrip(s) == IF s # << >> /\ s[Len(s)] = " " THEN rstrip(SubSeq(s, 1, Len(s) - 1)) ELSE s

strip(s) == rstrip(lstrip(s))

DEMO == << "D", "E", "M", "O" >>

----------------------------------------------------------------------------
(* Scoring *)

SESSION_TIMEOUT_MINUTES == 60

QuestionsPerDimension == 4

DimNames == << "Product", "Market", "Documentation", "Security", "Certifications" >>

DIMENSIONS == [ d \in { DimNames[i] : i \in 1..Len(DimNames) } |-> QuestionsPerDimension ]

RECURSIVE SumSeq(_)
SumSeq(s) == IF s = << >> THEN 0 ELSE Head(s) + SumSeq(Tail(s))

\* PyRound2 with a fault: ties round half up
PyRound2_half_up(num, den) ==
    LET q == (100 * num) \div den
        r == (100 * num) % den
    IN  IF 2 * r >= den THEN q + 1 ELSE q

\* round(num / den, 2) in hundredths.  Python rounds the double num / den
\* correctly to two decimals, half to even on an exact tie.  Within the
\* bounds of the model (at most 5 questions in a dimension; quarter-valued
\* dimension scores averaged over at most 5 dimensions) every tie num / den
\* is a multiple of 1/8 and so an exact double, and every other quotient is
\* further from a tie than the error of the division, so the exact rational
\* decides the result.
PyRound2(num, den) ==
    LET q == (100 * num) \div den
        r == (100 * num) % den
    IN  IF 2 * r > den THEN q + 1
        ELSE IF 2 * r < den THEN q
        ELSE IF q % 2 = 0 THEN q ELSE q + 1

\* DimensionAverage with a fault: the total is divided by one question too many
DimensionAverage_off_by_one(values) == PyRound2(SumSeq(values), Len(values) + 1)

\* avg = round(total / len(questions), 2)
DimensionAverage(values) == PyRound2(SumSeq(values), Len(values))

\* overall = round(sum(dimension_scores.values()) / len(dimension_scores), 2)
\* the dimension scores are given in hundredths
OverallScore(scores) == PyRound2(SumSeq(scores), 100 * Len(scores))

\* interpret_score with a fault: the cut points belong to the upper band
interpret_score_strict(score) ==
    IF score < 150 THEN "Critical"
    ELSE IF score < 250 THEN "Weak"
    ELSE IF score < 350 THEN "Moderate"
    ELSE IF score < 450 THEN "Good"
    ELSE "Very strong"

interpret_score(score) ==
    IF score <= 150 THEN "Critical"
    ELSE IF score <= 250 THEN "Weak"
    ELSE IF score <= 350 THEN "Moderate"
    ELSE IF score <= 450 THEN "Good"
    ELSE "Very strong"

----------------------------------------------------------------------------
(* Configuration: st.secrets, read once when the process starts *)

CoA == << "A" >>

CoB == << "B" >>

CoE == << "E" >>

\* no COMPANY_CODES table in the secrets
NoCodes == [ c \in {} |-> << >> ]

\* two ordinary companies, a company whose id is the demo sentinel, and a
\* company whose configured code is the empty string
ConfiguredCodes ==
    [ c \in { CoA, CoB, DEMO, CoE } |->
        IF c = CoA THEN << "a" >>
        ELSE IF c = CoB THEN << "b" >>
        ELSE IF c = DEMO THEN << "a" >>
        ELSE << >> ]

AUTH_ENABLED == DOMAIN COMPANY_CODES # {}

PERSISTENCE_ENABLED == AUTH_ENABLED /\ SUPABASE_ENABLED

----------------------------------------------------------------------------
(* Inputs of a run *)

CompanyInputs ==
    { << " ", "A", " " >>, CoB, DEMO, CoE, << "X" >>, << " " >> }

AccessInputs == { << >>, << "a" >>, << "b" >> }

\* every slider at its default value=3
DefaultResponses == [ d \in DOMAIN DIMENSIONS |-> << 3, 3, 3, 3 >> ]

MixedResponses ==
    [ d \in DOMAIN DIMENSIONS |->
        IF d = "Product" THEN << 4, 4, 3, 5 >>
        ELSE IF d = "Market" THEN << 5, 5, 5, 5 >>
        ELSE IF d = "Documentation" THEN << 2, 3, 3, 3 >>
        ELSE IF d = "Security" THEN << 1, 1, 2, 1 >>
        ELSE << 1, 1, 1, 1 >> ]

ResponseChoices == { DefaultResponses, MixedResponses }

\* the steps by which the clock advances between two runs
TickChoices == { SESSION_TIMEOUT_MINUTES, SESSION_TIMEOUT_MINUTES + 1 }

----------------------------------------------------------------------------
(* Session state and authentication *)

NotSet == -1

\* if "last_activity" not in st.session_state: ... = datetime.utcnow()
SessionDefaults(ss, t) ==
    IF ss.last_activity = NotSet THEN [ ss EXCEPT !.last_activity = t ] ELSE ss

\* TimeoutCheck with a fault: a session idle for exactly the timeout expires
TimeoutCheck_inclusive(ss, t) ==
    IF ss.logged_in /\ AUTH_ENABLED
    THEN IF t - ss.last_activity >= SESSION_TIMEOUT_MINUTES
         THEN [ logged_in |-> FALSE, company_id |-> None, last_activity |-> t ]
         ELSE [ ss EXCEPT !.last_activity = t ]
    ELSE ss

TimeoutCheck(ss, t) ==
    IF ss.logged_in /\ AUTH_ENABLED
    THEN IF t - ss.last_activity > SESSION_TIMEOUT_MINUTES
         THEN [ logged_in |-> FALSE, company_id |-> None, last_activity |-> t ]
         ELSE [ ss EXCEPT !.last_activity = t ]
    ELSE ss

\* SignIn with a fault: the access code is not compared
SignIn_any_code(ss, company_input, access_code, t) ==
    LET cid == strip(company_input)
    IN  IF cid = << >> \/ cid \notin DOMAIN COMPANY_CODES
        THEN [ ss |-> ss, msg |-> "Unknown company ID.", ok |-> FALSE ]
        ELSE IF access_code = << >>
        THEN [ ss |-> ss, msg |-> "Access code is required.", ok |-> FALSE ]
        ELSE [ ss |-> [ logged_in |-> TRUE, company_id |-> cid, last_activity |-> t ],
               msg |-> "Login successful.", ok |-> TRUE ]

\* if login_clicked: ...
SignIn(ss, company_input, access_code, t) ==
    LET cid == strip(company_input)
    IN  IF cid = << >> \/ cid \notin DOMAIN COMPANY_CODES
        THEN [ ss |-> ss, msg |-> "Unknown company ID.", ok |-> FALSE ]
        ELSE IF access_code = << >>
        THEN [ ss |-> ss, msg |-> "Access code is required.", ok |-> FALSE ]
        ELSE IF COMPANY_CODES[cid] # access_code
        THEN [ ss |-> ss, msg |-> "Invalid access code.", ok |-> FALSE ]
        ELSE [ ss |-> [ logged_in |-> TRUE, company_id |-> cid, last_activity |-> t ],
               msg |-> "Login successful.", ok |-> TRUE ]

\* if logout_clicked: ...
SignOut(ss) == [ ss EXCEPT !.logged_in = FALSE, !.company_id = None ]

\* the notices under the sign-in form
SidebarNotices ==
    IF SUPABASE_ENABLED /\ ~PERSISTENCE_ENABLED
    THEN { "Supabase is configured, but COMPANY_CODES are not." }
    ELSE IF ~SUPABASE_ENABLED
    THEN { "Supabase is not configured in secrets." }
    ELSE {}

\* with st.sidebar: ...   At most one button is clicked in a run.
Sidebar(ss, event, company_input, access_code, t) ==
    IF ~AUTH_ENABLED
    THEN [ ss |-> [ ss EXCEPT !.logged_in = TRUE, !.company_id = DEMO ],
           msgs |-> { "Demo mode: no data is stored." }, signed_in |-> FALSE ]
    ELSE IF event = "logout"
    THEN [ ss |-> SignOut(ss), msgs |-> SidebarNotices, signed_in |-> FALSE ]
    ELSE IF event = "login"
    THEN LET r == SignIn(ss, company_input, access_code, t)
         IN  [ ss |-> r.ss, msgs |-> { r.msg } \cup SidebarNotices, signed_in |-> r.ok ]
    ELSE [ ss |-> ss, msgs |-> SidebarNotices, signed_in |-> FALSE ]

\* Gate with a fault: the script does not stop
Gate_open(ss) == TRUE

\* if not st.session_state.logged_in: ... st.stop()   TRUE: the script goes on
Gate(ss) == ss.logged_in

\* company_id: str = st.session_state.company_id or "DEMO"
LocalCompanyId(ss) ==
    IF ss.company_id = None \/ ss.company_id = << >> THEN DEMO ELSE ss.company_id

----------------------------------------------------------------------------
(* Questionnaire *)

\* dimension_scores[dim_name] = avg, for every dimension
Questionnaire(responses) ==
    [ d \in DOMAIN DIMENSIONS |-> DimensionAverage(responses[d]) ]

\* overall, over the values of dimension_scores in the order of DIMENSIONS
Overall(dimension_scores) ==
    OverallScore([ i \in 1..Len(DimNames) |-> dimension_scores[DimNames[i]] ])

----------------------------------------------------------------------------
(* Persistence: the table "assessments" behind the Supabase client *)

\* A score in the JSON body of the insert: the shortest decimal literal that
\* reads back as the same double, as Python's float repr gives it (4.0, 2.8,
\* 1.25): the integer part and the digits after the point.
json_dumps_number(h) ==
    [ int  |-> h \div 100,
      frac |-> IF h % 10 = 0 THEN << (h % 100) \div 10 >>
               ELSE << (h % 100) \div 10, h % 10 >> ]

\* The number of a row that the query returns, read back into a float.
json_loads_number(j) ==
    j.int * 100 + (IF Len(j.frac) = 1 THEN 10 * j.frac[1]
                   ELSE 10 * j.frac[1] + j.frac[2])

\* NewRow with a fault: the row is filed under the demo sentinel
NewRow_demo_owner(rows, company_id, scores, overall_score, t) ==
    [ id         |-> Cardinality(rows) + 1,
      company_id |-> DEMO,
      overall    |-> json_dumps_number(overall_score),
      scores     |-> [ d \in DOMAIN scores |-> json_dumps_number(scores[d]) ],
      created_at |-> t ]

\* data = {...}, as the table stores it.  created_at is
\* datetime.utcnow().isoformat(), whose order as text is the order of the
\* times; the table numbers its rows.
NewRow(rows, company_id, scores, overall_score, t) ==
    [ id         |-> Cardinality(rows) + 1,
      company_id |-> company_id,
      overall    |-> json_dumps_number(overall_score),
      scores     |-> [ d \in DOMAIN scores |-> json_dumps_number(scores[d]) ],
      created_at |-> t ]

\* save_assessment.  insert_ok: whether supabase...insert(data).execute()
\* returns; when it raises, nothing was inserted.
save_assessment(rows, company_id, scores, overall_score, t, insert_ok) ==
    IF ~PERSISTENCE_ENABLED \/ company_id = DEMO
    THEN [ outcome |-> "returned", rows |-> rows ]
    ELSE IF insert_ok
    THEN [ outcome |-> "inserted",
           rows |-> rows \cup { NewRow(rows, company_id, scores, overall_score, t) } ]
    ELSE [ outcome |-> "raised", rows |-> rows ]

\* SaveHandler with a fault: a failed insert is swallowed
SaveHandler_swallow(save_clicked, rows, company_id, scores, overall_score, t, insert_ok) ==
    IF ~save_clicked
    THEN [ outcome |-> "none", rows |-> rows, msgs |-> {} ]
    ELSE IF PERSISTENCE_ENABLED /\ company_id # DEMO
    THEN LET r == save_assessment(rows, company_id, scores, overall_score, t, insert_ok)
         IN  [ outcome |-> r.outcome, rows |-> r.rows,
               msgs |-> { "Assessment saved to history." } ]
    ELSE IF ~AUTH_ENABLED
    THEN [ outcome |-> "refused", rows |-> rows,
           msgs |-> { "History is disabled in demo mode (no company codes configured)." } ]
    ELSE IF ~SUPABASE_ENABLED
    THEN [ outcome |-> "refused", rows |-> rows,
           msgs |-> { "Supabase is not configured; nothing was saved." } ]
    ELSE [ outcome |-> "refused", rows |-> rows,
           msgs |-> { "History storage is currently disabled for this deployment." } ]

\* if save_col.button("Save this assessment", ...): ...
\* The button is drawn disabled when saving is off; the handler does not rely
\* on that, and neither does the model: save_clicked may be TRUE in any run.
\* outcome "raised": the exception of the insert leaves the handler, and
\* st.success is not reached.
SaveHandler(save_clicked, rows, company_id, scores, overall_score, t, insert_ok) ==
    IF ~save_clicked
    THEN [ outcome |-> "none", rows |-> rows, msgs |-> {} ]
    ELSE IF PERSISTENCE_ENABLED /\ company_id # DEMO
    THEN LET r == save_assessment(rows, company_id, scores, overall_score, t, insert_ok)
         IN  [ outcome |-> r.outcome, rows |-> r.rows,
               msgs |-> IF r.outcome = "raised" THEN {}
                        ELSE { "Assessment saved to history." } ]
    ELSE IF ~AUTH_ENABLED
    THEN [ outcome |-> "refused", rows |-> rows,
           msgs |-> { "History is disabled in demo mode (no company codes configured)." } ]
    ELSE IF ~SUPABASE_ENABLED
    THEN [ outcome |-> "refused", rows |-> rows,
           msgs |-> { "Supabase is not configured; nothing was saved." } ]
    ELSE [ outcome |-> "refused", rows |-> rows,
           msgs |-> { "History storage is currently disabled for this deployment." } ]

\* a row as load_history hands it to the chart: the numbers read back
ReadRow(r) ==
    [ id         |-> r.id,
      company_id |-> r.company_id,
      overall    |-> json_loads_number(r.overall),
      scores     |-> [ d \in DOMAIN r.scores |-> json_loads_number(r.scores[d]) ],
      created_at |-> r.created_at ]

\* the sequences that hold every row of the set once
Orderings(rows) ==
    { s \in [ 1..Cardinality(rows) -> rows ] :
        \A i, j \in 1..Cardinality(rows) : i # j => s[i] # s[j] }

\* Select with a fault: every row of the table, whoever owns it
Select_all(rows, company_id) ==
    { s \in Orderings(rows) :
        \A i, j \in 1..Len(s) : i < j => s[i].created_at <= s[j].created_at }

\* .select("*").eq("company_id", company_id).order("created_at", desc=False)
\* The order of rows with equal created_at is the table's choice: every
\* answer the query may give.
Select(rows, company_id) ==
    { s \in Orderings({ r \in rows : r.company_id = company_id }) :
        \A i, j \in 1..Len(s) : i < j => s[i].created_at <= s[j].created_at }

\* load_history: the answers it may return (res.data or []), or "raised"
\* when the query's execute() raises.
load_history(rows, company_id, query_ok) ==
    IF ~PERSISTENCE_ENABLED \/ company_id = DEMO
    THEN { [ outcome |-> "returned", data |-> << >> ] }
    ELSE IF query_ok
    THEN { [ outcome |-> "queried", data |-> [ i \in 1..Len(s) |-> ReadRow(s[i]) ] ] :
             s \in Select(rows, company_id) }
    ELSE { [ outcome |-> "raised", data |-> << >> ] }

\* HistorySection with a fault: the section is drawn whenever a company is
\* signed in
HistorySection_unguarded(rows, company_id, query_ok) ==
    IF company_id # DEMO
    THEN { [ outcome |-> h.outcome, chart |-> h.data,
             msgs |-> IF h.outcome # "raised" /\ h.data = << >>
                      THEN { "No previous assessments found for this company." }
                      ELSE {} ] :
             h \in load_history(rows, company_id, query_ok) }
    ELSE IF AUTH_ENABLED /\ SUPABASE_ENABLED
    THEN { [ outcome |-> "none", chart |-> << >>,
             msgs |-> { "History is only available for authenticated companies." } ] }
    ELSE { [ outcome |-> "none", chart |-> << >>, msgs |-> {} ] }

\* History / evolution chart: what the section may show
HistorySection(rows, company_id, query_ok) ==
    IF PERSISTENCE_ENABLED /\ company_id # DEMO
    THEN { [ outcome |-> h.outcome, chart |-> h.data,
             msgs |-> IF h.outcome # "raised" /\ h.data = << >>
                      THEN { "No previous assessments found for this company." }
                      ELSE {} ] :
             h \in load_history(rows, company_id, query_ok) }
    ELSE IF AUTH_ENABLED /\ SUPABASE_ENABLED
    THEN { [ outcome |-> "none", chart |-> << >>,
             msgs |-> { "History is only available for authenticated companies." } ] }
    ELSE { [ outcome |-> "none", chart |-> << >>, msgs |-> {} ] }

----------------------------------------------------------------------------
(* A run of the script *)

\* what out holds before the first run
NoRun ==
    [ timed_out |-> FALSE,
      pre_sidebar |-> [ logged_in |-> FALSE, company_id |-> None ],
      page |-> "none", exception |-> FALSE, msgs |-> {}, company_id |-> None,
      responses |-> << >>, dimension_scores |-> << >>, overall |-> NotSet,
      save |-> "none", history |-> "none", chart |-> << >> ]

\* One execution of app.py from its first line to its last, to st.stop() or
\* to the exception that ends it.
\*   event                       the button clicked, if any
\*   company_input, access_code  the text of the sign-in form
\*   responses                   the values of the sliders
\*   insert_ok, query_ok         whether the table answers
Script(event, company_input, access_code, responses, insert_ok, query_ok) ==
    \* every value the script computes is bound once, in the order of the lines
    \E s0 \in { SessionDefaults(session_state, now) } :
    \E s1 \in { TimeoutCheck(s0, now) } :
    \E sb \in { Sidebar(s1, event, company_input, access_code, now) } :
    \E s2 \in { sb.ss } :
    \E timed_out \in { s0.logged_in /\ ~s1.logged_in } :
    \E pre \in { [ logged_in |-> s1.logged_in, company_id |-> s1.company_id ] } :
        /\ session_state' = s2
        /\ last_sign_in' = IF sb.signed_in
                           THEN [ company_input |-> company_input,
                                  access_code |-> access_code ]
                           ELSE last_sign_in
        /\ IF ~Gate(s2)
           THEN /\ store' = store
                /\ saved_log' = saved_log
                /\ out' = [ timed_out |-> timed_out,
                            pre_sidebar |-> pre, page |-> "signin",
                            exception |-> FALSE, msgs |-> sb.msgs,
                            company_id |-> None, responses |-> << >>,
                            dimension_scores |-> << >>, overall |-> NotSet,
                            save |-> "none", history |-> "none", chart |-> << >> ]
           ELSE \E cid \in { LocalCompanyId(s2) } :
                \E dimension_scores \in { Questionnaire(responses) } :
                \E overall \in { Overall(dimension_scores) } :
                \E sv \in { SaveHandler(event = "save", store, cid, dimension_scores,
                                        overall, now, insert_ok) } :
                IF sv.outcome = "raised"
                THEN /\ store' = sv.rows
                     /\ saved_log' = saved_log
                     /\ out' = [ timed_out |-> timed_out,
                                 pre_sidebar |-> pre, page |-> "app",
                                 exception |-> TRUE, msgs |-> sb.msgs \cup sv.msgs,
                                 company_id |-> cid, responses |-> responses,
                                 dimension_scores |-> dimension_scores,
                                 overall |-> overall,
                                 save |-> sv.outcome, history |-> "none",
                                 chart |-> << >> ]
                ELSE /\ store' = sv.rows
                     /\ saved_log' =
                          IF sv.outcome = "inserted"
                          THEN saved_log \cup
                                 { [ id |-> Cardinality(store) + 1, company_id |-> cid,
                                     scores |-> dimension_scores, overall |-> overall,
                                     created_at |-> now ] }
                          ELSE saved_log
                     /\ \E h \in HistorySection(sv.rows, cid, query_ok) :
                          out' = [ timed_out |-> timed_out,
                                   pre_sidebar |-> pre, page |-> "app",
                                   exception |-> (h.outcome = "raised"),
                                   msgs |-> sb.msgs \cup sv.msgs \cup h.msgs,
                                   company_id |-> cid, responses |-> responses,
                                   dimension_scores |-> dimension_scores,
                                   overall |-> overall,
                                   save |-> sv.outcome, history |-> h.outcome,
                                   chart |-> h.chart ]
        /\ UNCHANGED << COMPANY_CODES, SUPABASE_ENABLED, now, scoreVars, labelVars >>

\* a slider was moved, or the page was loaded or reloaded
Rerun ==
    \E responses \in ResponseChoices, query_ok \in BOOLEAN :
        Script("rerun", << >>, << >>, responses, TRUE, query_ok)

\* "Sign in" was clicked; the buttons exist only with company codes.  The
\* sliders of the company that signs in are new widgets, at their default.
SignInRun ==
    /\ AUTH_ENABLED
    /\ \E company_input \in CompanyInputs, access_code \in AccessInputs :
          Script("login", company_input, access_code, DefaultResponses, TRUE, TRUE)

\* "Sign out" was clicked
SignOutRun ==
    /\ AUTH_ENABLED
    /\ Script("logout", << >>, << >>, DefaultResponses, TRUE, TRUE)

\* "Save this assessment" was clicked
SaveRun ==
    \E responses \in ResponseChoices, insert_ok \in BOOLEAN, query_ok \in BOOLEAN :
        /\ insert_ok => Cardinality(store) < MaxRecords
        /\ Script("save", << >>, << >>, responses, insert_ok, query_ok)

\* time passes between two runs; a run reads the clock at one instant (its
\* duration is far below the timeout, the only span the script measures)
Tick ==
    /\ \E d \in TickChoices :
          /\ now + d <= MaxClock
          /\ now' = now + d
    /\ UNCHANGED << COMPANY_CODES, SUPABASE_ENABLED, session_state, store, saved_log,
                    last_sign_in, out, scoreVars, labelVars >>

\* the state of the scoring and label specifications, which the app leaves alone
ScoreIdle == questionnaire = << >> /\ result = << >>

LabelIdle == probe = NotSet /\ band = ""

Init ==
    /\ COMPANY_CODES \in { NoCodes, ConfiguredCodes }
    /\ SUPABASE_ENABLED \in BOOLEAN
    /\ session_state = [ logged_in |-> FALSE, company_id |-> None,
                         last_activity |-> NotSet ]
    /\ now = 0
    /\ store = {}
    /\ saved_log = {}
    /\ last_sign_in = [ company_input |-> None, access_code |-> None ]
    /\ out = NoRun
    /\ ScoreIdle
    /\ LabelIdle

Next == Rerun \/ SignInRun \/ SignOutRun \/ SaveRun \/ Tick

Spec == Init /\ [][Next]_vars

----------------------------------------------------------------------------
(* The scoring specification: the scoring rule applied to a questionnaire *)

MinResponse == 1

MaxResponse == 5

\* the rows of a questionnaire of several dimensions
ScenarioRows ==
    { << 4, 4, 3, 5 >>, << 1, 1, 2, 1 >>, << 3, 3, 3, 3 >>, << 5, 5, 5, 5 >>,
      << 1, 1, 1, 1 >>, << 2, 3, 3, 3 >> }

\* one dimension of up to MaxQuestions questions with every assignment of
\* responses, or 2..MaxDims dimensions of 4 questions
Questionnaires ==
    { << r >> : r \in UNION { [ 1..n -> MinResponse..MaxResponse ] : n \in 1..MaxQuestions } }
    \cup UNION { [ 1..k -> ScenarioRows ] : k \in 2..MaxDims }

AppIdle ==
    /\ COMPANY_CODES = NoCodes
    /\ SUPABASE_ENABLED = FALSE
    /\ session_state = [ logged_in |-> FALSE, company_id |-> None,
                         last_activity |-> NotSet ]
    /\ now = 0
    /\ store = {}
    /\ saved_log = {}
    /\ last_sign_in = [ company_input |-> None, access_code |-> None ]
    /\ out = NoRun

ScoreInit ==
    /\ AppIdle
    /\ LabelIdle
    /\ questionnaire \in Questionnaires
    /\ result = << >>

\* the questionnaire loop and the lines after it, for the dimensions given
ScoreQuestionnaire ==
    /\ result = << >>
    /\ LET avgs == [ i \in 1..Len(questionnaire) |-> DimensionAverage(questionnaire[i]) ]
       IN  result' = [ dimension_scores |-> avgs,
                       labels |-> [ i \in 1..Len(avgs) |-> interpret_score(avgs[i]) ],
                       overall |-> OverallScore(avgs),
                       overall_label |-> interpret_score(OverallScore(avgs)) ]
    /\ UNCHANGED << appVars, questionnaire, labelVars >>

ScoreNext == ScoreQuestionnaire

ScoreSpec == ScoreInit /\ [][ScoreNext]_vars

----------------------------------------------------------------------------
(* The label specification: interpret_score applied to a score *)

LabelInit ==
    /\ AppIdle
    /\ ScoreIdle
    /\ probe \in (100 * MinResponse)..(100 * MaxResponse)
    /\ band = ""

Interpret ==
    /\ band = ""
    /\ band' = interpret_score(probe)
    /\ UNCHANGED << appVars, scoreVars, probe >>

LabelNext == Interpret

LabelSpec == LabelInit /\ [][LabelNext]_vars

----------------------------------------------------------------------------
(* Properties *)

LoginOk == "Login successful."

SignInErrors ==
    { "Unknown company ID.", "Access code is required.", "Invalid access code." }

Saved == "Assessment saved to history."

NoPrevious == "No previous assessments found for this company."

\* the notices that tell a session that nothing is stored
DisabledReports ==
    { "Demo mode: no data is stored.",
      "Supabase is not configured in secrets.",
      "Supabase is configured, but COMPANY_CODES are not." }

\* the latest run computed a score, saved or queried
CoreReached ==
    \/ out.dimension_scores # << >>
    \/ out.overall # NotSet
    \/ out.save # "none"
    \/ out.history # "none"
    \/ out.chart # << >>

\* C1: the questionnaire scoring, save_assessment and load_history are
\* reached only in a run whose session is logged in at the gate; a run whose
\* session is not logged in there shows the sign-in page and computes no
\* score, saves no record and queries no history.
C1_GateBeforeCore ==
    /\ (out.page = "app" \/ CoreReached) => session_state.logged_in
    /\ (out.page # "none" /\ ~session_state.logged_in) =>
          (out.page = "signin" /\ ~CoreReached)

\* C1: a session that had signed in and saved, timed out and was stopped at
\* the gate
C1_Witness ==
    /\ out.page = "signin"
    /\ out.timed_out
    /\ store # {}
    /\ ~CoreReached

\* C2: a history query of a signed-in company c (persistence on, c not
\* DEMO) returns exactly the records saved for c, each once, in ascending
\* created_at order, each with the scores and the overall value that were
\* passed to save_assessment; with no record of c it returns the empty
\* sequence and no error.
C2_HistoryRoundTrip ==
    out.history = "queried" =>
        LET c    == out.company_id
            mine == { l \in saved_log : l.company_id = c }
        IN  /\ PERSISTENCE_ENABLED /\ c # DEMO /\ c = session_state.company_id
            /\ ~out.exception
            /\ Len(out.chart) = Cardinality(mine)
            /\ \A l \in mine :
                 \E i \in 1..Len(out.chart) :
                    /\ out.chart[i].id = l.id
                    /\ out.chart[i].company_id = c
                    /\ out.chart[i].scores = l.scores
                    /\ out.chart[i].overall = l.overall
                    /\ out.chart[i].created_at = l.created_at
            /\ \A i, j \in 1..Len(out.chart) :
                 i < j => out.chart[i].created_at <= out.chart[j].created_at

\* C2: a history of two records of different times and different scores
C2_Witness ==
    /\ out.history = "queried"
    /\ Len(out.chart) = 2
    /\ out.chart[1].created_at < out.chart[2].created_at
    /\ out.chart[1].scores # out.chart[2].scores

\* the scores of the responses, from the arithmetic of four questions and
\* five dimensions: a mean of four integers is a whole number of quarters
ScoresOfResponses(responses, scores, overall_score) ==
    /\ DOMAIN scores = DOMAIN DIMENSIONS
    /\ \A d \in DOMAIN scores : scores[d] = 25 * SumSeq(responses[d])
    /\ 5 * overall_score =
          scores["Product"] + scores["Market"] + scores["Documentation"]
          + scores["Security"] + scores["Certifications"]

\* C3: when the insert of a save fails, the run ends with the exception (it
\* is not swallowed), the success message is not shown, no record is added,
\* the history is not queried, and the responses, the dimension scores and
\* the overall score displayed are those of the run's sliders.
C3_SaveFailureSurfaced ==
    [][ out'.save = "raised" =>
          /\ out'.exception
          /\ Saved \notin out'.msgs
          /\ store' = store
          /\ saved_log' = saved_log
          /\ out'.history = "none"
          /\ out'.page = "app"
          /\ out'.responses \in ResponseChoices
          /\ ScoresOfResponses(out'.responses, out'.dimension_scores, out'.overall)
      ]_vars

\* C3: a save failed after an earlier one had succeeded
C3_Witness ==
    /\ out.save = "raised"
    /\ store # {}
    /\ out.responses = MixedResponses

\* C4: "No previous assessments found" is reported only, and always, when
\* persistence is on and the query for the company returned no record; a
\* signed-in session without persistence never gets it and always gets a
\* notice that nothing is stored.
C4_DisabledDistinctFromEmpty ==
    /\ NoPrevious \in out.msgs =>
          /\ PERSISTENCE_ENABLED
          /\ out.history = "queried"
          /\ out.chart = << >>
          /\ \A l \in saved_log : l.company_id # out.company_id
    /\ (out.history = "queried" /\ out.chart = << >>) => NoPrevious \in out.msgs
    /\ (out.page = "app" /\ ~PERSISTENCE_ENABLED) =>
          /\ NoPrevious \notin out.msgs
          /\ out.msgs \cap DisabledReports # {}
          /\ out.history = "none"
    /\ (out.page = "app" /\ PERSISTENCE_ENABLED) => out.msgs \cap DisabledReports = {}

\* C4: a company signed in where codes are configured and Supabase is not
C4_Witness ==
    /\ out.page = "app"
    /\ AUTH_ENABLED
    /\ ~PERSISTENCE_ENABLED
    /\ session_state.company_id = CoA
    /\ "Supabase is not configured in secrets." \in out.msgs

\* raw is c with spaces before and after it, and c neither starts nor ends
\* with a space
TrimsTo(raw, c) ==
    /\ c # << >> => (c[1] # " " /\ c[Len(c)] # " ")
    /\ \E i \in 0..Len(raw) :
          /\ i + Len(c) <= Len(raw)
          /\ SubSeq(raw, i + 1, i + Len(c)) = c
          /\ \A k \in 1..Len(raw) : (k <= i \/ k > i + Len(c)) => raw[k] = " "

\* C8: with company codes configured the session is either logged out with
\* company_id None, or logged in as a non-empty key c of COMPANY_CODES that
\* the latest successful sign-in submitted (up to surrounding spaces) with a
\* non-empty access code equal to COMPANY_CODES[c]; a rejected sign-in
\* leaves logged_in and company_id as the sign-in handler found them.
C8_SessionAuthentic ==
    AUTH_ENABLED =>
        /\ \/ ~session_state.logged_in /\ session_state.company_id = None
           \/ /\ session_state.logged_in
              /\ session_state.company_id # << >>
              /\ session_state.company_id \in DOMAIN COMPANY_CODES
              /\ TrimsTo(last_sign_in.company_input, session_state.company_id)
              /\ last_sign_in.access_code # << >>
              /\ last_sign_in.access_code = COMPANY_CODES[session_state.company_id]
        /\ out.msgs \cap SignInErrors # {} =>
              /\ session_state.logged_in = out.pre_sidebar.logged_in
              /\ session_state.company_id = out.pre_sidebar.company_id
              /\ LoginOk \notin out.msgs

\* C8: signed in as A through an input with spaces, then a sign-in with a
\* wrong code was rejected and the session is still A's
C8_Witness ==
    /\ session_state.logged_in
    /\ session_state.company_id = CoA
    /\ last_sign_in.company_input # CoA
    /\ "Invalid access code." \in out.msgs

\* C9: a step changes the table only by adding one row, only when
\* persistence is on, and the row carries the company_id the session is
\* signed in as in that run, which is not DEMO; no row is ever changed or
\* removed.
C9_InsertOnlyOwnRows ==
    [][ /\ store \subseteq store'
        /\ store' # store =>
              /\ PERSISTENCE_ENABLED
              /\ Cardinality(store') = Cardinality(store) + 1
              /\ session_state'.logged_in
              /\ session_state'.company_id # DEMO
              /\ \A r \in store' \ store : r.company_id = session_state'.company_id
              /\ out'.save = "inserted"
        /\ (~PERSISTENCE_ENABLED \/ session_state'.company_id = DEMO
            \/ ~session_state'.logged_in) => store' = store
      ]_vars

\* C9: company B has just saved a row of its own beside a row of company A
C9_Witness ==
    /\ out.save = "inserted"
    /\ session_state.company_id = CoB
    /\ \E r \in store : r.company_id = CoB
    /\ \E r \in store : r.company_id = CoA

\* C10: in a run that starts logged in with company codes configured, the
\* timeout check logs the session out and clears company_id exactly when
\* more than 60 minutes have passed since last_activity; such a run reaches
\* the application page only through a successful sign-in of that run;
\* otherwise the check leaves the session logged in; in both cases
\* last_activity becomes the time of the run.
C10_IdleTimeout ==
    [][ (AUTH_ENABLED /\ session_state.logged_in /\ now' = now) =>
          /\ session_state'.last_activity = now
          /\ (now - session_state.last_activity > 60) =>
                /\ out'.timed_out
                /\ out'.pre_sidebar = [ logged_in |-> FALSE, company_id |-> None ]
                /\ LoginOk \notin out'.msgs =>
                      /\ ~session_state'.logged_in
                      /\ session_state'.company_id = None
                      /\ out'.page = "signin"
                      /\ out'.dimension_scores = << >>
                      /\ out'.save = "none"
                      /\ out'.history = "none"
                      /\ store' = store
          /\ (now - session_state.last_activity <= 60) =>
                /\ ~out'.timed_out
                /\ out'.pre_sidebar = [ logged_in |-> TRUE,
                                        company_id |-> session_state.company_id ]
      ]_vars

\* C10: a session timed out and a valid sign-in of the same run let it in
C10_Witness ==
    /\ out.timed_out
    /\ LoginOk \in out.msgs
    /\ out.page = "app"
    /\ session_state.last_activity = now

\* C5: every dimension score lies in [1.00, 5.00] and within half a
\* hundredth of the mean of the responses; all responses 1 give exactly 1.00
\* and all responses 5 exactly 5.00.
C5_DimensionScoreRange ==
    result # << >> =>
        \A i \in 1..Len(questionnaire) :
            LET r == questionnaire[i]
                s == result.dimension_scores[i]
                n == Len(r)
                e == s * n - 100 * SumSeq(r)
            IN  /\ 100 <= s /\ s <= 500
                /\ 2 * e <= n /\ -n <= 2 * e
                /\ (\A k \in 1..n : r[k] = 1) => s = 100
                /\ (\A k \in 1..n : r[k] = 5) => s = 500

\* C5: a dimension of four questions whose mean is not a whole number
C5_Witness ==
    /\ result # << >>
    /\ questionnaire = << << 1, 1, 2, 1 >> >>
    /\ result.dimension_scores = << 125 >>

\* C6: interpret_score gives every score of [1.00, 5.00] the one band its
\* cut points name, each cut point belonging to the lower band.
C6_Bands ==
    band # "" =>
        /\ probe <= 150 => band = "Critical"
        /\ (150 < probe /\ probe <= 250) => band = "Weak"
        /\ (250 < probe /\ probe <= 350) => band = "Moderate"
        /\ (350 < probe /\ probe <= 450) => band = "Good"
        /\ 450 < probe => band = "Very strong"
        /\ band \in { "Critical", "Weak", "Moderate", "Good", "Very strong" }

\* C6: the score 4.50, a cut point, is Good
C6_Witness == probe = 450 /\ band = "Good"

\* the questionnaire of the scenario: responses [4,4,3,5] and [1,1,2,1]
Scenario == << << 4, 4, 3, 5 >>, << 1, 1, 2, 1 >> >>

\* C7 as stated: the two dimensions score 4.00 (Good) and 1.25 (Critical)
\* and their overall score is 2.63 (Moderate).
C7_Original ==
    (questionnaire = Scenario /\ result # << >>) =>
        /\ result.dimension_scores = << 400, 125 >>
        /\ result.labels = << "Good", "Critical" >>
        /\ result.overall = 263
        /\ result.overall_label = "Moderate"

\* C7 as amended: the two dimensions score 4.00 (Good) and 1.25 (Critical)
\* and their overall score is 2.62 (Moderate): the mean 2.625 is a tie, and
\* round() takes a tie to the even hundredth.
C7_Amended ==
    (questionnaire = Scenario /\ result # << >>) =>
        /\ result.dimension_scores = << 400, 125 >>
        /\ result.labels = << "Good", "Critical" >>
        /\ result.overall = 262
        /\ result.overall_label = "Moderate"

\* C7: the scenario has been scored
C7_Witness == questionnaire = Scenario /\ result # << >> /\ result.overall = 262

====
